---- MODULE Spec2Model ----
(***************************************************************************)
(* Model of the Neo4j MCP server (src/mcp-server/src/server.py) and of the *)
(* client shim Neo4jMCPTool._execute_mcp_call (src/graph_agent.py).        *)
(*                                                                         *)
(* The graph store and the neo4j driver are external: the store is a list  *)
(* of nodes plus a relationship count, reachable or not; a driver handle   *)
(* is "open" or "closed".  Every tool handler is cut into steps at the     *)
(* places where it touches shared state (the global `driver`, the store).  *)
(***************************************************************************)
EXTENDS Integers, Sequences, FiniteSets, TLC

\* ------------------------------------------------------------------ bounds
MaxNodes == 1          \* nodes the store may hold under Spec
MaxRels == 1           \* relationships the store may hold under Spec

MaxCalls == 5          \* direct get_neo4j_driver / close_driver calls under SpecCM
RTMaxNodes == 11       \* nodes the store may hold under SpecRT
MaxClientCalls == 3    \* _execute_mcp_call calls under SpecClient

Workers == {1, 2}      \* concurrently served invocations

\* ------------------------------------------------------- program constants
DefaultLimit == 10     \* find_nodes(..., limit: int = 10)

None == 0              \* Python None for the global `driver`
NULL == -1             \* a JSON null property value
EmptyMap == [k \in {} |-> 0]

\* ------------------------------------------------------------------- state
VARIABLES
    driver,      \* the module global `driver`: None or a handle id
    handles,     \* handles[h]: "open" | "closed", one entry per driver ever created
    reachable,   \* whether the store answers
    nodes,       \* the store's nodes, nodes[i] = [id, labels, props]
    rels,        \* the store's relationship count
    phase,       \* "serving" | "exited"
    pc,          \* pc[w]: where worker w's invocation stands
    op,          \* op[w]: the tool being served
    args,        \* args[w]: its arguments
    local,       \* local[w]: the handler's local `driver`
    idx,         \* idx[w]: the next statement of get_database_info
    acc,         \* acc[w]: results get_database_info has read so far
    issued,      \* issued[w]: the session.run calls of this invocation, in order
    env,         \* env[w]: the envelope returned
    snaps,       \* snaps[w]: the store summaries that existed during this get_database_info
    prevLost,    \* prevLost[w]: the invocation w served before this one failed because
                 \* the store was away
    cmLog,       \* the get_neo4j_driver / close_driver calls made directly, in order
    rtCreated,   \* rtCreated[i]: the label and properties given to the create_node
                 \* that made nodes[i]
    cpc,         \* where the client's _execute_mcp_call stands
    ccount,      \* the _execute_mcp_call calls begun
    ctransports, \* one entry per streamablehttp_client opened: "open" | "closed"
    csessions,   \* one entry per ClientSession opened: [state, initialized, calls]
    cerr,        \* the exception travelling up to the `except`, "" when none
    creply,      \* the text the server answered with
    cresult      \* what _execute_mcp_call gave its caller

vars == <<driver, handles, reachable, nodes, rels, phase, pc, op, args, local,
          idx, acc, issued, env, snaps, prevLost, cmLog, rtCreated,
          cpc, ccount, ctransports, csessions, cerr, creply, cresult>>

\* What the server's steps leave alone: the direct callers' log and the client.
clientVars == <<cpc, ccount, ctransports, csessions, cerr, creply, cresult>>
aux == <<cmLog, rtCreated, clientVars>>
workerVars == <<pc, op, args, local, idx, acc, issued, env, snaps>>

\* ------------------------------------------------------------- the inputs
IdentChars == {"P", "Q"}
LabelInputs == {<<>>, <<"P">>, <<"P", "-">>}
PropInputs == {[k \in {"name"} |-> 1]}
FilterInputs == {EmptyMap, [k \in {"name"} |-> 1]}
QCount == "MATCH (n) RETURN count(n) AS c"
QBad == "MATCH (n RETURN"
QRel == "MATCH (a) WITH a LIMIT 1 CREATE (a)-[r:R]->(a) RETURN count(r) AS c"
QPath == "MATCH p=()-[]->() RETURN p"
QueryInputs == {QCount, QBad, QRel, QPath}

\* create_node inputs of SpecRT: one with a null value, one with two labels and a
\* property named like find_nodes' own `limit` parameter.
RTCreateInputs ==
    {[label |-> <<"P">>, properties |-> [k \in {"name"} |-> NULL]],
     [label |-> <<"P", ":", "Q">>, properties |-> [k \in {"limit", "name"} |-> 1]]}
SubMaps(m) == {[k \in d |-> m[k]] : d \in {x \in SUBSET DOMAIN m : Cardinality(x) <= 1}}
RTFindInputs ==
    UNION {{[label |-> c.label, properties |-> f] : f \in SubMaps(c.properties)} :
           c \in RTCreateInputs}
\* What session.call_tool hands back as result.content[0].text.
ServerReplies == {"success", "failure", "not json"}

NoArgs == [label |-> <<>>, properties |-> EmptyMap, limit |-> DefaultLimit, query |-> ""]
NoAcc == [labels |-> {}, rtypes |-> {}, ncount |-> 0]
NoResult == [kind |-> "none", success |-> FALSE, error |-> ""]
NoEnv == [kind |-> "none", success |-> FALSE, error |-> "", node |-> {}, nodes |-> {},
          count |-> 0, records |-> <<>>, labels |-> {}, rtypes |-> {}, ncount |-> 0, rcount |-> 0]

\* ------------------------------------------------------------- the store
\* A label text as the store's parser reads it after "n:": names separated by ":".
RECURSIVE SplitColon(_)
SplitColon(s) ==
    IF \E i \in 1..Len(s) : s[i] = ":"
    THEN LET i == CHOOSE j \in 1..Len(s) : s[j] = ":" /\ \A k \in 1..(j - 1) : s[k] # ":"
         IN <<SubSeq(s, 1, i - 1)>> \o SplitColon(SubSeq(s, i + 1, Len(s)))
    ELSE <<s>>

IsIdent(s) == Len(s) > 0 /\ \A i \in 1..Len(s) : s[i] \in IdentChars

ParseLabels(text) ==
    LET parts == SplitColon(text)
    IN [ok |-> \A i \in 1..Len(parts) : IsIdent(parts[i]),
        names |-> {parts[i] : i \in 1..Len(parts)}]

\* The store does not keep a property whose value is null.
StoredProps(keys, params) == [k \in {x \in keys : params[x] # NULL} |-> params[k]]

NodeSet(ns) == {ns[i] : i \in 1..Len(ns)}
LabelCatalog(ns) == UNION {ns[i].labels : i \in 1..Len(ns)}
RelTypes(r) == IF r > 0 THEN {"R"} ELSE {}
\* A count statement that counts the wrong thing.
NodeCountOfRels(ns) == rels
\* "MATCH (n) RETURN count(n) as count"
NodeCount(ns) == Len(ns)
\* "MATCH ()-[r]->() RETURN count(r) as count"
RelCount(r) == r
\* What a store state looks like to get_database_info.
Summary(ns, r) == [labels |-> UNION {ns[i].labels : i \in 1..Len(ns)}, ncount |-> Len(ns),
                   rcount |-> r]

\* ------------------------------------------------------- statement builder
\* A CREATE statement built without its property block.
CreateQueryNoProps(label, properties) ==
    [kind |-> "CREATE", labelled |-> TRUE, label |-> label,
     keys |-> {}, params |-> properties, limit |-> 0]

\* f"CREATE (n:{label} {{{props_str}}}) RETURN n", run with `properties` as parameters.
CreateQuery(label, properties) ==
    [kind |-> "CREATE", labelled |-> TRUE, label |-> label,
     keys |-> DOMAIN properties, params |-> properties, limit |-> 0]

\* f"{match_clause}{where_clause} RETURN n LIMIT $limit", params = {"limit": limit} + properties.
FindLabelled(label) == Len(label) > 0
FindLimitParam(properties, limit) ==
    IF "limit" \in DOMAIN properties THEN properties["limit"] ELSE limit
FindQuery(label, properties, limit) ==
    [kind |-> "MATCH", labelled |-> FindLabelled(label), label |-> label,
     keys |-> DOMAIN properties, params |-> properties,
     limit |-> FindLimitParam(properties, limit)]

\* The store's answer to the label part of a built statement.
QueryParses(q) == q.labelled => ParseLabels(q.label).ok

\* MATCH (n:A:B) WHERE n.k = $k: every label named, every property equal; a
\* comparison with null is never true.
NodeMatches(n, names, q) ==
    /\ names \subseteq n.labels
    /\ \A k \in q.keys : /\ k \in DOMAIN n.props
                         /\ q.params[k] # NULL
                         /\ n.props[k] = q.params[k]

Matching(ns, q) ==
    LET names == IF q.labelled THEN ParseLabels(q.label).names ELSE {}
    IN {n \in NodeSet(ns) : NodeMatches(n, names, q)}

Min(a, b) == IF a < b THEN a ELSE b

\* The subsets of S that hold k elements.
RECURSIVE KSubsets(_, _)
KSubsets(S, k) ==
    IF k = 0 THEN {{}}
    ELSE IF k = Cardinality(S) THEN {S}
    ELSE LET x == CHOOSE y \in S : TRUE
         IN KSubsets(S \ {x}, k) \cup {T \cup {x} : T \in KSubsets(S \ {x}, k - 1)}

\* RETURN n LIMIT $limit: any `limit` of the matching nodes (the store fixes no order).
LimitedResults(ns, q) ==
    LET m == Matching(ns, q)
    IN KSubsets(m, Min(q.limit, Cardinality(m)))

\* LIMIT takes a non-negative integer.
LimitValid(q) == q.limit >= 0

CreatedNode(ns, q) ==
    [id |-> Len(ns), labels |-> ParseLabels(q.label).names,
     props |-> StoredProps(q.keys, q.params)]

\* ------------------------------------------------------- result normalizer
\* {"properties": dict(node), "labels": list(node.labels), "id": node.id}
NodeEntry(n) == [properties |-> n.props, labels |-> n.labels, id |-> n.id]

\* ------------------------------------------------------ connection manager
HandleUsable(h) == h \in 1..Len(handles) /\ handles[h] = "open"

\* What session.run raises before the statement reaches the store's parser.
SessionError(h) ==
    IF ~HandleUsable(h) THEN "DriverClosed"
    ELSE IF ~reachable THEN "ServiceUnavailable"
    ELSE ""

\* A failed creation that leaves a dead handle in the global.
DriverAfterFailedCreateSticky(d) == -1

\* `driver = GraphDatabase.driver(...)` raised: the assignment did not happen.
DriverAfterFailedCreate(d) == d

\* A close_driver that forgets to clear the global.
DriverAfterCloseKept(d) == d

\* close_driver: `driver = None` after driver.close().
DriverAfterClose(d) == None

\* ------------------------------------------------------------- dispatcher
\* An except clause too narrow for a failed driver creation or session: it escapes.
ExceptClauseRaises(o, e) ==
    IF e \in {"ServiceUnavailable", "DriverClosed"}
    THEN [pc |-> "raised", env |-> NoEnv]
    ELSE [pc |-> "done", env |-> [NoEnv EXCEPT !.kind = o, !.success = FALSE, !.error = e]]

\* An except clause that sends the handler back to its statement.
ExceptClauseRetries(o, e) ==
    [pc |-> "run", env |-> [NoEnv EXCEPT !.kind = o, !.success = FALSE, !.error = e]]

\* The handlers' `except Exception as e: return {"success": False, "error": str(e), ...}`.
ExceptClause(o, e) ==
    [pc |-> "done", env |-> [NoEnv EXCEPT !.kind = o, !.success = FALSE, !.error = e]]

InFlight(o) == Cardinality({w \in Workers : pc[w] # "idle" /\ op[w] = o})
InFlightRel == Cardinality({w \in Workers : pc[w] # "idle" /\ op[w] = "run_cypher_query"
                                            /\ args[w].query = QRel})

Init ==
    /\ driver = None
    /\ handles = <<>>
    /\ reachable = TRUE
    /\ nodes = <<>>
    /\ rels = 0
    /\ phase = "serving"
    /\ pc = [w \in Workers |-> "idle"]
    /\ op = [w \in Workers |-> "none"]
    /\ args = [w \in Workers |-> NoArgs]
    /\ local = [w \in Workers |-> None]
    /\ idx = [w \in Workers |-> 0]
    /\ acc = [w \in Workers |-> NoAcc]
    /\ issued = [w \in Workers |-> <<>>]
    /\ env = [w \in Workers |-> NoEnv]
    /\ snaps = [w \in Workers |-> {}]
    /\ prevLost = [w \in Workers |-> FALSE]
    /\ cmLog = <<>>
    /\ rtCreated = <<>>
    /\ cpc = "idle"
    /\ ccount = 0
    /\ ctransports = <<>>
    /\ csessions = <<>>
    /\ cerr = ""
    /\ creply = ""
    /\ cresult = NoResult

\* The transport hands a tool call to a handler, which runs up to get_neo4j_driver's
\* `if driver is None:`.
Begin(w, o, a) ==
    /\ UNCHANGED aux
    /\ phase = "serving"
    /\ pc[w] = "idle"
    /\ pc' = [pc EXCEPT ![w] = IF driver = None THEN "create" ELSE "return_driver"]
    /\ op' = [op EXCEPT ![w] = o]
    /\ args' = [args EXCEPT ![w] = a]
    /\ local' = [local EXCEPT ![w] = None]
    /\ idx' = [idx EXCEPT ![w] = IF o = "get_database_info" THEN 1 ELSE 0]
    /\ acc' = [acc EXCEPT ![w] = NoAcc]
    /\ issued' = [issued EXCEPT ![w] = <<>>]
    /\ env' = [env EXCEPT ![w] = NoEnv]
    /\ snaps' = [snaps EXCEPT ![w] = IF o = "get_database_info"
                                      THEN {Summary(nodes, rels)} ELSE {}]
    /\ UNCHANGED <<driver, handles, reachable, nodes, rels, phase, prevLost>>

CallRunCypherQuery(w) ==
    \E q \in QueryInputs :
        /\ q = QRel => rels + InFlightRel < MaxRels
        /\ Begin(w, "run_cypher_query", [NoArgs EXCEPT !.query = q])

CallGetDatabaseInfo(w) == Begin(w, "get_database_info", NoArgs)

CallCreateNode(w) ==
    \E l \in LabelInputs, p \in PropInputs :
        /\ Len(nodes) + InFlight("create_node") < MaxNodes
        /\ Begin(w, "create_node", [NoArgs EXCEPT !.label = l, !.properties = p])

CallFindNodes(w) ==
    \E l \in LabelInputs, p \in FilterInputs :
        Begin(w, "find_nodes", [NoArgs EXCEPT !.label = l, !.properties = p])

\* get_neo4j_driver, `driver = GraphDatabase.driver(...)`.  A driver that connects
\* when it is built raises while the store is away; one that connects lazily does not.
CreateDriver(w) ==
    /\ UNCHANGED aux
    /\ pc[w] = "create"
    /\ \/ /\ handles' = Append(handles, "open")
          /\ driver' = Len(handles) + 1
          /\ pc' = [pc EXCEPT ![w] = "return_driver"]
          /\ UNCHANGED env
       \/ /\ ~reachable
          /\ handles' = handles
          /\ driver' = DriverAfterFailedCreate(driver)
          /\ pc' = [pc EXCEPT ![w] = ExceptClause(op[w], "ServiceUnavailable").pc]
          /\ env' = [env EXCEPT ![w] = ExceptClause(op[w], "ServiceUnavailable").env]
    /\ UNCHANGED <<reachable, nodes, rels, phase, op, args, local, idx, acc, issued, snaps,
                   prevLost>>

\* get_neo4j_driver, `return driver`: the global is read again.
ReturnDriver(w) ==
    /\ UNCHANGED aux
    /\ pc[w] = "return_driver"
    /\ local' = [local EXCEPT ![w] = driver]
    /\ pc' = [pc EXCEPT ![w] = "run"]
    /\ UNCHANGED <<driver, handles, reachable, nodes, rels, phase, op, args,
                   idx, acc, issued, env, snaps, prevLost>>

\* A store change is seen by every get_database_info in flight.
Observe(ns, r) ==
    [w \in Workers |-> IF pc[w] # "idle" /\ op[w] = "get_database_info"
                       THEN snaps[w] \cup {Summary(ns, r)} ELSE snaps[w]]

\* The failure path shared by the handlers' session.run calls.
Fail(w, e) ==
    /\ pc' = [pc EXCEPT ![w] = ExceptClause(op[w], e).pc]
    /\ env' = [env EXCEPT ![w] = ExceptClause(op[w], e).env]
    /\ UNCHANGED <<driver, handles, reachable, nodes, rels, phase, op, args, local,
                   idx, acc, snaps, prevLost>>

Succeed(w, e) ==
    /\ pc' = [pc EXCEPT ![w] = "done"]
    /\ env' = [env EXCEPT ![w] = e]
    /\ UNCHANGED <<driver, handles, reachable, phase, op, args, local, idx, acc, prevLost>>

\* run_cypher_query: session.run(query, parameters) and the conversion of the records.
RunCypherQuery(w) ==
    /\ UNCHANGED aux
    /\ pc[w] = "run" /\ op[w] = "run_cypher_query"
    /\ issued' = [issued EXCEPT ![w] = Append(@, 1)]
    /\ LET q == args[w].query
           ok(recs) == [NoEnv EXCEPT !.kind = op[w], !.success = TRUE,
                                     !.records = recs, !.count = Len(recs)]
       IN IF SessionError(local[w]) # "" THEN Fail(w, SessionError(local[w]))
          ELSE IF q = QBad THEN Fail(w, "SyntaxError")
          ELSE IF q = QCount
               THEN Succeed(w, ok(<<NodeCount(nodes)>>)) /\ UNCHANGED <<nodes, rels, snaps>>
          ELSE IF q = QRel
               THEN IF Len(nodes) = 0
                    THEN Succeed(w, ok(<<0>>)) /\ UNCHANGED <<nodes, rels, snaps>>
                    ELSE /\ Succeed(w, ok(<<1>>))
                         /\ rels' = rels + 1
                         /\ snaps' = Observe(nodes, rels + 1)
                         /\ UNCHANGED nodes
          ELSE \* QPath: dict(value) raises on a Path
               IF rels = 0
               THEN Succeed(w, ok(<<>>)) /\ UNCHANGED <<nodes, rels, snaps>>
               ELSE Fail(w, "ValueError")

\* get_database_info: its five session.run calls, one per step.
InfoStatement(w) ==
    /\ UNCHANGED aux
    /\ pc[w] = "run" /\ op[w] = "get_database_info"
    /\ issued' = [issued EXCEPT ![w] = Append(@, idx[w])]
    /\ IF SessionError(local[w]) # "" THEN Fail(w, SessionError(local[w]))
       ELSE /\ UNCHANGED <<driver, handles, reachable, nodes, rels, phase, op, args,
                           local, snaps, prevLost>>
            /\ IF idx[w] < 5
               THEN /\ idx' = [idx EXCEPT ![w] = @ + 1]
                    /\ acc' = [acc EXCEPT ![w] =
                                 IF idx[w] = 2 THEN [@ EXCEPT !.labels = LabelCatalog(nodes)]
                                 ELSE IF idx[w] = 3 THEN [@ EXCEPT !.rtypes = RelTypes(rels)]
                                 ELSE IF idx[w] = 4 THEN [@ EXCEPT !.ncount = NodeCount(nodes)]
                                 ELSE @]
                    /\ UNCHANGED <<pc, env>>
               ELSE /\ pc' = [pc EXCEPT ![w] = "done"]
                    /\ env' = [env EXCEPT ![w] =
                                 [NoEnv EXCEPT !.kind = op[w], !.success = TRUE,
                                               !.labels = acc[w].labels,
                                               !.rtypes = acc[w].rtypes,
                                               !.ncount = acc[w].ncount,
                                               !.rcount = RelCount(rels)]]
                    /\ UNCHANGED <<idx, acc>>

\* create_node: the statement is built from the label as given, then run.
CreateNodeRun(w) ==
    /\ UNCHANGED aux
    /\ pc[w] = "run" /\ op[w] = "create_node"
    /\ issued' = [issued EXCEPT ![w] = Append(@, 1)]
    /\ LET q == CreateQuery(args[w].label, args[w].properties)
           n == CreatedNode(nodes, q)
       IN IF SessionError(local[w]) # "" THEN Fail(w, SessionError(local[w]))
          ELSE IF ~QueryParses(q) THEN Fail(w, "SyntaxError")
          ELSE /\ Succeed(w, [NoEnv EXCEPT !.kind = op[w], !.success = TRUE, !.node = {NodeEntry(n)}])
               /\ nodes' = Append(nodes, n)
               /\ snaps' = Observe(Append(nodes, n), rels)
               /\ UNCHANGED rels

\* find_nodes: the statement is built from the label as given, then run.
FindNodesRun(w) ==
    /\ UNCHANGED aux
    /\ pc[w] = "run" /\ op[w] = "find_nodes"
    /\ issued' = [issued EXCEPT ![w] = Append(@, 1)]
    /\ LET q == FindQuery(args[w].label, args[w].properties, args[w].limit)
       IN IF SessionError(local[w]) # "" THEN Fail(w, SessionError(local[w]))
          ELSE IF ~QueryParses(q) THEN Fail(w, "SyntaxError")
          ELSE IF ~LimitValid(q) THEN Fail(w, "ArgumentError")
          ELSE \E found \in LimitedResults(nodes, q) :
                 /\ Succeed(w, [NoEnv EXCEPT !.kind = op[w], !.success = TRUE,
                                             !.nodes = {NodeEntry(n) : n \in found},
                                             !.count = Cardinality(found)])
                 /\ UNCHANGED <<nodes, rels, snaps>>

\* The envelope goes back to the transport; the handler's frame is gone.
Return(w) ==
    /\ UNCHANGED aux
    /\ pc[w] = "done"
    /\ pc' = [pc EXCEPT ![w] = "idle"]
    /\ op' = [op EXCEPT ![w] = "none"]
    /\ args' = [args EXCEPT ![w] = NoArgs]
    /\ local' = [local EXCEPT ![w] = None]
    /\ idx' = [idx EXCEPT ![w] = 0]
    /\ acc' = [acc EXCEPT ![w] = NoAcc]
    /\ issued' = [issued EXCEPT ![w] = <<>>]
    /\ env' = [env EXCEPT ![w] = NoEnv]
    /\ snaps' = [snaps EXCEPT ![w] = {}]
    /\ prevLost' = [prevLost EXCEPT ![w] = (env[w].error = "ServiceUnavailable")]
    /\ UNCHANGED <<driver, handles, reachable, nodes, rels, phase>>

\* The store goes away or comes back.
ToggleStore ==
    /\ UNCHANGED aux
    /\ phase = "serving"
    /\ reachable' = ~reachable
    /\ UNCHANGED <<driver, handles, nodes, rels, phase, pc, op, args, local,
                   idx, acc, issued, env, snaps, prevLost>>

\* mcp.run returns and the module ends: nothing calls cleanup().
Shutdown ==
    /\ UNCHANGED aux
    /\ phase = "serving"
    /\ \A w \in Workers : pc[w] = "idle"
    /\ phase' = "exited"
    /\ UNCHANGED <<driver, handles, reachable, nodes, rels, pc, op, args, local,
                   idx, acc, issued, env, snaps, prevLost>>

Next ==
    \/ \E w \in Workers : CallRunCypherQuery(w)
    \/ \E w \in Workers : CallGetDatabaseInfo(w)
    \/ \E w \in Workers : CallCreateNode(w)
    \/ \E w \in Workers : CallFindNodes(w)
    \/ \E w \in Workers : CreateDriver(w)
    \/ \E w \in Workers : ReturnDriver(w)
    \/ \E w \in Workers : RunCypherQuery(w)
    \/ \E w \in Workers : InfoStatement(w)
    \/ \E w \in Workers : CreateNodeRun(w)
    \/ \E w \in Workers : FindNodesRun(w)
    \/ \E w \in Workers : Return(w)
    \/ ToggleStore
    \/ Shutdown

Spec == Init /\ [][Next]_vars

\* ---------------------------------------------- the connection manager alone
\* get_neo4j_driver() called directly, with no other call in between.
get_neo4j_driver ==
    /\ Len(cmLog) < MaxCalls
    /\ IF driver = None
       THEN \/ /\ handles' = Append(handles, "open")
               /\ driver' = Len(handles) + 1
               /\ cmLog' = Append(cmLog, [op |-> "acquire", before |-> driver,
                                          ret |-> Len(handles) + 1, created |-> TRUE])
            \/ /\ ~reachable
               /\ handles' = handles
               /\ driver' = DriverAfterFailedCreate(driver)
               /\ cmLog' = Append(cmLog, [op |-> "acquire", before |-> driver,
                                          ret |-> None, created |-> FALSE])
       ELSE /\ cmLog' = Append(cmLog, [op |-> "acquire", before |-> driver,
                                       ret |-> driver, created |-> FALSE])
            /\ UNCHANGED <<driver, handles>>
    /\ UNCHANGED <<reachable, nodes, rels, phase, workerVars, prevLost, rtCreated, clientVars>>

\* close_driver() called directly.
close_driver ==
    /\ Len(cmLog) < MaxCalls
    /\ IF driver # None
       THEN /\ handles' = [handles EXCEPT ![driver] = "closed"]
            /\ driver' = DriverAfterClose(driver)
       ELSE UNCHANGED <<driver, handles>>
    /\ cmLog' = Append(cmLog, [op |-> "release", before |-> driver,
                               ret |-> None, created |-> FALSE])
    /\ UNCHANGED <<reachable, nodes, rels, phase, workerVars, prevLost, rtCreated, clientVars>>

NextCM == get_neo4j_driver \/ close_driver \/ ToggleStore

SpecCM == Init /\ [][NextCM]_vars

\* ------------------------------------------- whole handlers, one after another
\* get_neo4j_driver run to its end while the store answers.
DriverNow == IF driver = None THEN Len(handles) + 1 ELSE driver
HandlesNow == IF driver = None THEN Append(handles, "open") ELSE handles

\* create_node served from its first line to its return, nothing else in between.
create_node(l, p) ==
    /\ phase = "serving" /\ reachable /\ pc[1] = "idle"
    /\ Len(nodes) < RTMaxNodes
    /\ driver' = DriverNow
    /\ handles' = HandlesNow
    /\ op' = [op EXCEPT ![1] = "create_node"]
    /\ args' = [args EXCEPT ![1] = [NoArgs EXCEPT !.label = l, !.properties = p]]
    /\ LET q == CreateQuery(l, p)
           n == CreatedNode(nodes, q)
       IN IF ~QueryParses(q)
          THEN /\ env' = [env EXCEPT ![1] = ExceptClause("create_node", "SyntaxError").env]
               /\ UNCHANGED <<nodes, rtCreated>>
          ELSE /\ env' = [env EXCEPT ![1] = [NoEnv EXCEPT !.kind = "create_node",
                                                          !.success = TRUE,
                                                          !.node = {NodeEntry(n)}]]
               /\ nodes' = Append(nodes, n)
               /\ rtCreated' = Append(rtCreated, [label |-> l, properties |-> p])
    /\ UNCHANGED <<reachable, rels, phase, pc, local, idx, acc, issued, snaps,
                   prevLost, cmLog, clientVars>>

\* find_nodes served from its first line to its return, nothing else in between.
find_nodes(l, p, limit) ==
    /\ phase = "serving" /\ reachable /\ pc[1] = "idle"
    /\ driver' = DriverNow
    /\ handles' = HandlesNow
    /\ op' = [op EXCEPT ![1] = "find_nodes"]
    /\ args' = [args EXCEPT ![1] = [NoArgs EXCEPT !.label = l, !.properties = p,
                                                  !.limit = limit]]
    /\ LET q == FindQuery(l, p, limit)
       IN IF ~QueryParses(q)
          THEN env' = [env EXCEPT ![1] = ExceptClause("find_nodes", "SyntaxError").env]
          ELSE IF ~LimitValid(q)
          THEN env' = [env EXCEPT ![1] = ExceptClause("find_nodes", "ArgumentError").env]
          ELSE \E found \in LimitedResults(nodes, q) :
                 env' = [env EXCEPT ![1] = [NoEnv EXCEPT !.kind = "find_nodes",
                                              !.success = TRUE,
                                              !.nodes = {NodeEntry(n) : n \in found},
                                              !.count = Cardinality(found)]]
    /\ UNCHANGED <<reachable, nodes, rels, phase, pc, local, idx, acc, issued, snaps,
                   prevLost, cmLog, rtCreated, clientVars>>

NextRT ==
    \/ \E c \in RTCreateInputs : create_node(c.label, c.properties)
    \/ \E f \in RTFindInputs : find_nodes(f.label, f.properties, DefaultLimit)

SpecRT == Init /\ [][NextRT]_vars

\* ------------------------------------------------------------ the client shim
serverVars == <<driver, handles, reachable, nodes, rels, phase, workerVars, prevLost,
                cmLog, rtCreated>>

LastOf(sq) == Len(sq)

\* An exception that leaves the session block without the session being closed.
AfterSessionErrorSkipsClose == "close_transport"

\* Where an exception raised inside `async with ClientSession(...)` goes first.
AfterSessionError == "close_session"

\* Where an exception raised inside `async with streamablehttp_client(...)` goes first.
AfterTransportError == "close_transport"

\* A tool wrapper calls _execute_mcp_call.
ExecuteMcpCall ==
    /\ cpc = "idle"
    /\ ccount < MaxClientCalls
    /\ ccount' = ccount + 1
    /\ cpc' = "open_transport"
    /\ cerr' = ""
    /\ creply' = ""
    /\ cresult' = NoResult
    /\ UNCHANGED <<ctransports, csessions, serverVars>>

\* `async with streamablehttp_client(self.server_url) as (...)`
OpenTransport ==
    /\ cpc = "open_transport"
    /\ \/ /\ ctransports' = Append(ctransports, "open")
          /\ cpc' = "open_session"
          /\ UNCHANGED cerr
       \/ /\ cerr' = "ConnectError"
          /\ cpc' = "except"
          /\ UNCHANGED ctransports
    /\ UNCHANGED <<ccount, csessions, creply, cresult, serverVars>>

\* `async with ClientSession(read_stream, write_stream) as session`
OpenSession ==
    /\ cpc = "open_session"
    /\ \/ /\ csessions' = Append(csessions, [state |-> "open", initialized |-> FALSE,
                                             calls |-> 0])
          /\ cpc' = "initialize"
          /\ UNCHANGED cerr
       \/ /\ cerr' = "SessionError"
          /\ cpc' = AfterTransportError
          /\ UNCHANGED csessions
    /\ UNCHANGED <<ccount, ctransports, creply, cresult, serverVars>>

\* `await session.initialize()`
Initialize ==
    /\ cpc = "initialize"
    /\ \/ /\ csessions' = [csessions EXCEPT ![LastOf(csessions)].initialized = TRUE]
          /\ cpc' = "call_tool"
          /\ UNCHANGED cerr
       \/ /\ cerr' = "HandshakeError"
          /\ cpc' = AfterSessionError
          /\ UNCHANGED csessions
    /\ UNCHANGED <<ccount, ctransports, creply, cresult, serverVars>>

\* `result = await session.call_tool(tool_name, arguments=arguments)`
CallTool ==
    /\ cpc = "call_tool"
    /\ csessions' = [csessions EXCEPT ![LastOf(csessions)].calls = @ + 1]
    /\ \/ /\ \E r \in ServerReplies : creply' = r
          /\ cpc' = "parse"
          /\ UNCHANGED cerr
       \/ /\ cerr' = "McpError"
          /\ cpc' = AfterSessionError
          /\ UNCHANGED creply
    /\ UNCHANGED <<ccount, ctransports, cresult, serverVars>>

\* `return json.loads(result.content[0].text)`
ParseReply ==
    /\ cpc = "parse"
    /\ IF creply \in {"success", "failure"}
       THEN /\ cresult' = [kind |-> "parsed", success |-> (creply = "success"),
                           error |-> IF creply = "success" THEN "" ELSE "store error"]
            /\ cpc' = "close_session"
            /\ UNCHANGED cerr
       ELSE /\ cerr' = "JSONDecodeError"
            /\ cpc' = AfterSessionError
            /\ UNCHANGED cresult
    /\ UNCHANGED <<ccount, ctransports, csessions, creply, serverVars>>

\* ClientSession.__aexit__, on the way out with a value or with an exception.
CloseSession ==
    /\ cpc = "close_session"
    /\ csessions' = [csessions EXCEPT ![LastOf(csessions)].state = "closed"]
    /\ cpc' = "close_transport"
    /\ \/ UNCHANGED cerr
       \/ cerr = "" /\ cerr' = "CloseError"
    /\ UNCHANGED <<ccount, ctransports, creply, cresult, serverVars>>

\* streamablehttp_client's __aexit__.
CloseTransport ==
    /\ cpc = "close_transport"
    /\ ctransports' = [ctransports EXCEPT ![LastOf(ctransports)] = "closed"]
    /\ cpc' = IF cerr = "" THEN "return" ELSE "except"
    /\ UNCHANGED <<ccount, csessions, cerr, creply, cresult, serverVars>>

\* The value of json.loads reaches the caller.
ReturnParsed ==
    /\ cpc = "return"
    /\ cpc' = "idle"
    /\ UNCHANGED <<ccount, ctransports, csessions, cerr, creply, cresult, serverVars>>

\* `except Exception as e: return {"success": False, "error": str(e)}`
ExceptReturn ==
    /\ cpc = "except"
    /\ cresult' = [kind |-> "caught", success |-> FALSE, error |-> cerr]
    /\ cpc' = "idle"
    /\ UNCHANGED <<ccount, ctransports, csessions, cerr, creply, serverVars>>

NextClient ==
    \/ ExecuteMcpCall
    \/ OpenTransport
    \/ OpenSession
    \/ Initialize
    \/ CallTool
    \/ ParseReply
    \/ CloseSession
    \/ CloseTransport
    \/ ReturnParsed
    \/ ExceptReturn

SpecClient == Init /\ [][NextClient]_vars

\* ===================================================================== claims

OpenHandles == {h \in 1..Len(handles) : handles[h] = "open"}

\* C1: while the global driver is unset, concurrent get_neo4j_driver calls create
\* exactly one handle, and every caller gets that one handle.
C1_SingleFlight ==
    /\ Len(handles) <= 1
    /\ \A v, w \in Workers : (local[v] # None /\ local[w] # None) => local[v] = local[w]

\* C2: in any sequence of direct get_neo4j_driver / close_driver calls a handle is
\* created only when the singleton is empty, acquires between two releases return
\* the same handle, close_driver closes it and empties the singleton, the first
\* acquire after a release creates a new handle; so at most one handle is open and
\* no closed handle is returned.
C2_SingletonLifecycle ==
    /\ Cardinality(OpenHandles) <= 1
    /\ driver # None => OpenHandles = {driver}
    /\ driver = None => OpenHandles = {}
    /\ \A i \in 1..Len(cmLog) :
         LET e == cmLog[i]
         IN /\ e.op = "acquire" =>
                 /\ e.created => e.before = None
                 /\ e.before # None => (e.ret = e.before /\ ~e.created)
                 /\ (e.before = None /\ e.ret # None) =>
                        (e.created /\ \A j \in 1..(i - 1) : cmLog[j].ret # e.ret)
            /\ (e.op = "release" /\ i = Len(cmLog)) =>
                 (driver = None /\ (e.before # None => handles[e.before] = "closed"))
            /\ (e.op = "acquire" /\ i = Len(cmLog) /\ e.ret # None) =>
                 (handles[e.ret] = "open" /\ driver = e.ret)
    /\ \A i, j \in 1..Len(cmLog) :
         (/\ i < j
          /\ cmLog[i].op = "acquire" /\ cmLog[i].ret # None
          /\ cmLog[j].op = "acquire" /\ cmLog[j].ret # None
          /\ \A k \in (i + 1)..(j - 1) : cmLog[k].op # "release")
         => cmLog[i].ret = cmLog[j].ret

\* C2's case: create, reuse, release, create anew.
C2_Witness ==
    /\ Len(cmLog) >= 4
    /\ cmLog[1].op = "acquire" /\ cmLog[1].created
    /\ cmLog[2].op = "acquire" /\ cmLog[2].ret = cmLog[1].ret
    /\ cmLog[3].op = "release"
    /\ cmLog[4].op = "acquire" /\ cmLog[4].created /\ cmLog[4].ret # cmLog[1].ret

\* A label the identifier pattern rejects: a character that is no alphanumeric or
\* underscore, or, for create_node, no character at all.
UnsafeLabel(o, l) ==
    \/ \E i \in 1..Len(l) : l[i] \notin IdentChars
    \/ o = "create_node" /\ Len(l) = 0

\* C3: create_node and find_nodes given an unsafe label end in a failure envelope
\* caused by a validation error, and call session.run not once.
C3_UnsafeLabelRejected ==
    \A w \in Workers :
        (op[w] \in {"create_node", "find_nodes"} /\ UnsafeLabel(op[w], args[w].label)) =>
            /\ issued[w] = <<>>
            /\ pc[w] = "done" => (~env[w].success /\ env[w].error = "ValidationError")

\* A step of worker w's handler.
HandlerStep(w) ==
    \/ CreateDriver(w)
    \/ ReturnDriver(w)
    \/ RunCypherQuery(w)
    \/ InfoStatement(w)
    \/ CreateNodeRun(w)
    \/ FindNodesRun(w)

WellFormed(o, e) ==
    /\ e.kind = o
    /\ e.success \in BOOLEAN
    /\ ~e.success => e.error # ""
    /\ e.success =>
         /\ e.error = ""
         /\ o = "run_cypher_query" => e.count = Len(e.records)
         /\ o = "create_node" => Cardinality(e.node) = 1
         /\ o = "find_nodes" => e.count = Cardinality(e.nodes)

\* C4: every invocation of the four tools ends by returning an envelope with a
\* boolean success flag, success with the payload or failure with an error text;
\* no handler is left with an exception escaped, and none gets stuck on the way.
C4_AlwaysEnvelope ==
    \A w \in Workers :
        /\ pc[w] \in {"idle", "create", "return_driver", "run", "done"}
        /\ pc[w] \in {"create", "return_driver", "run"} => ENABLED HandlerStep(w)
        /\ pc[w] = "done" => WellFormed(op[w], env[w])

\* C4's case: a driver creation that failed came back as a failure envelope.
C4_Witness ==
    \E w \in Workers :
        /\ pc[w] = "done" /\ issued[w] = <<>>
        /\ ~env[w].success /\ env[w].error = "ServiceUnavailable"

\* C5: within one invocation no statement is issued twice and none is issued after
\* the first failure: a failure ends the invocation.
C5_NoRetry ==
    \A w \in Workers :
        /\ \A i, j \in 1..Len(issued[w]) : i < j => issued[w][i] < issued[w][j]
        /\ Len(issued[w]) <= (IF op[w] = "get_database_info" THEN 5 ELSE 1)
        /\ (env[w].kind # "none" /\ ~env[w].success) => pc[w] = "done"

\* C5's case: get_database_info failed at its third statement and stopped there.
C5_Witness ==
    \E w \in Workers :
        /\ op[w] = "get_database_info" /\ pc[w] = "done"
        /\ ~env[w].success /\ issued[w] = <<1, 2, 3>>

\* A request the store accepts when it answers.
ValidRequest(o, a) ==
    /\ o = "run_cypher_query" => (a.query \in {QCount, QRel} \/ (a.query = QPath /\ rels = 0))
    /\ o = "create_node" => QueryParses(CreateQuery(a.label, a.properties))
    /\ o = "find_nodes" => (/\ QueryParses(FindQuery(a.label, a.properties, a.limit))
                            /\ LimitValid(FindQuery(a.label, a.properties, a.limit)))

\* C6: a connection failure is not sticky: whatever failed before, an invocation
\* with a valid request that ends while the store answers ends in success, with no
\* restart and no reset of the shared driver.
C6_NotSticky ==
    [][\A w \in Workers :
         (/\ pc[w] # "done" /\ pc'[w] = "done"
          /\ reachable
          /\ ValidRequest(op[w], args[w]))
         => env'[w].success]_vars

\* C6's case: the invocation before failed because the store was away, this one
\* succeeded.
C6_Witness ==
    \E w \in Workers : prevLost[w] /\ pc[w] = "done" /\ env[w].success

\* C7: when the server has exited, no driver handle it created is left open.
C7_ClosedAtExit == phase = "exited" => OpenHandles = {}

SubMapOf(f, p) == DOMAIN f \subseteq DOMAIN p /\ \A k \in DOMAIN f : f[k] = p[k]
NoNulls(p) == \A k \in DOMAIN p : p[k] # NULL
RTReturned(i) ==
    \E e \in env[1].nodes : e.id = nodes[i].id /\ e.properties = rtCreated[i].properties
RTAsked(i) ==
    /\ op[1] = "find_nodes"
    /\ rtCreated[i].label = args[1].label
    /\ SubMapOf(args[1].properties, rtCreated[i].properties)
RTMatches ==
    Cardinality(Matching(nodes, FindQuery(args[1].label, args[1].properties, args[1].limit)))

C9_FreshSessionPerCall ==
    /\ Len(csessions) <= Len(ctransports) /\ Len(ctransports) <= ccount
    /\ \A i \in 1..Len(csessions) :
         /\ csessions[i].calls <= 1
         /\ csessions[i].calls = 1 => csessions[i].initialized
         /\ i < Len(csessions) => csessions[i].state = "closed"
    /\ \A i \in 1..Len(ctransports) : i < Len(ctransports) => ctransports[i] = "closed"
    /\ cpc = "call_tool" => (/\ csessions[Len(csessions)].initialized
                             /\ csessions[Len(csessions)].calls = 0
                             /\ csessions[Len(csessions)].state = "open")
    /\ cpc \in {"idle", "return", "except"} =>
         /\ \A i \in 1..Len(csessions) : csessions[i].state = "closed"
         /\ \A i \in 1..Len(ctransports) : ctransports[i] = "closed"
    /\ (cpc = "idle" /\ ccount > 0) =>
         /\ cresult.kind \in {"parsed", "caught"}
         /\ cresult.kind = "caught" => (~cresult.success /\ cresult.error # "")
         /\ cresult.kind = "parsed" => csessions[Len(csessions)].calls = 1

\* C9's case: a second call whose handshake failed closed its own session and
\* came back as a failure, after a first call that went through.
C9_Witness ==
    /\ cpc = "idle" /\ ccount = 2
    /\ cresult.kind = "caught" /\ cresult.error = "HandshakeError"
    /\ Len(csessions) = 2
    /\ csessions[1].calls = 1 /\ csessions[2].calls = 0
    /\ csessions[2].state = "closed"

Returned(w) == pc[w] = "done" /\ op[w] = "get_database_info" /\ env[w].success

\* C10 as stated: what get_database_info returns is one store state that existed
\* during the invocation.
C10_OneSnapshot ==
    \A w \in Workers :
        Returned(w) =>
            \E s \in snaps[w] : /\ s.labels = env[w].labels
                                /\ s.ncount = env[w].ncount
                                /\ s.rcount = env[w].rcount

\* C10 as amended: each of node_labels, node_count and relationship_count is the
\* value of a store state that existed during the invocation, not always the same.
C10_EachFieldObserved ==
    \A w \in Workers :
        Returned(w) =>
            /\ \E s \in snaps[w] : s.labels = env[w].labels
            /\ \E s \in snaps[w] : s.ncount = env[w].ncount
            /\ \E s \in snaps[w] : s.rcount = env[w].rcount

\* C10's case: a create_node ran between the label statement and the count.
C10_Witness ==
    \E w \in Workers :
        /\ Returned(w)
        /\ env[w].labels = {} /\ env[w].ncount = 1
        /\ Cardinality(snaps[w]) >= 2

====
